---- MODULE Spec2Model ----
(***************************************************************************)
(* Model of the weather-radar repository.                                  *)
(*                                                                         *)
(* Server side (the /api/radar-data route): the module-level cache         *)
(* (cachedData), the guard flag (isFetching), the background timer, the    *)
(* two-strategy resolver getLatestMRMSData and the GET handler.            *)
(*                                                                         *)
(* Execution is single-threaded: one action of the model is one macrotask  *)
(* of the event loop (module load, a timer tick, the arrival of a request, *)
(* the arrival of an upstream HTTP response) together with every           *)
(* continuation that runs before the next macrotask.                       *)
(*                                                                         *)
(* Time is counted in milliseconds since 00:00:00.000 UTC of BaseDate; the *)
(* bounds keep every instant the model builds inside that day.            *)
(***************************************************************************)
EXTENDS Integers, Sequences, FiniteSets, TLC

(***************************************************************************)
(* Bounds of the model.                                                    *)
(***************************************************************************)
\* wall-clock time (ms of the day) at which the route module is loaded
StartTime == 7200000
\* amount by which the clock advances in one step (ms)
TickStep == 60000
\* number of periods of the background timer that are explored
MaxTicks == 1
\* largest number of filename matches in a directory listing
MaxMatches == 2

\* the UTC date <<year, month, day>> of the modelled day
BaseDate == <<2024, 6, 15>>

Min(a, b) == IF a <= b THEN a ELSE b

(***************************************************************************)
(* Program constants.                                                      *)
(***************************************************************************)
CACHE_DURATION == 2 * 60 * 1000

baseUrl == "https://mrms.ncep.noaa.gov/data/2D/ReflectivityAtLowestAltitude/"

MaxNow == StartTime + MaxTicks * CACHE_DURATION

\* JavaScript null (a record, so that it compares with cache entries)
null == [isNull |-> TRUE]

(***************************************************************************)
(* Strings that the code takes apart or builds are sequences of one-       *)
(* character strings.                                                      *)
(***************************************************************************)
Digits == <<"0", "1", "2", "3", "4", "5", "6", "7", "8", "9">>

DigitChar(n) == Digits[n + 1]

IsDigit(c) == \E n \in 0..9 : Digits[n + 1] = c

DigitVal(c) == CHOOSE n \in 0..9 : Digits[n + 1] = c

\* String(n).padStart(2, "0") for 0 <= n <= 99
PadStart2(n) == <<DigitChar(n \div 10), DigitChar(n % 10)>>

\* the three-digit millisecond field of toISOString
PadStart3(n) == <<DigitChar(n \div 100), DigitChar((n \div 10) % 10), DigitChar(n % 10)>>

\* the four-digit year of a template literal / of toISOString
Year4(n) ==
  <<DigitChar(n \div 1000), DigitChar((n \div 100) % 10),
    DigitChar((n \div 10) % 10), DigitChar(n % 10)>>

\* str.substring(from, to) with 0-based from, exclusive to
Substring(str, from, to) == SubSeq(str, from + 1, to)

\* the decimal number written by a sequence of digit characters
RECURSIVE ParseInt(_)
ParseInt(str) ==
  IF Len(str) = 0 THEN 0
  ELSE 10 * ParseInt(SubSeq(str, 1, Len(str) - 1)) + DigitVal(str[Len(str)])

(***************************************************************************)
(* Date: [ymd |-> <<year, month, day>>, tod |-> ms since midnight UTC], or *)
(* InvalidDate.                                                            *)
(***************************************************************************)
InvalidDate == [invalid |-> TRUE]

DateOf(ms) == [ymd |-> BaseDate, tod |-> ms]

GetUTCHours(d) == d.tod \div 3600000
GetUTCMinutes(d) == (d.tod \div 60000) % 60
GetUTCSeconds(d) == (d.tod \div 1000) % 60
GetUTCMilliseconds(d) == d.tod % 1000

SetUTCMinutes(d, m) == [d EXCEPT !.tod = d.tod + (m - GetUTCMinutes(d)) * 60000]
SetUTCSeconds(d, s) == [d EXCEPT !.tod = d.tod + (s - GetUTCSeconds(d)) * 1000]
SetUTCMilliseconds(d, ms) == [d EXCEPT !.tod = d.tod + (ms - GetUTCMilliseconds(d))]

\* Date.prototype.toISOString: "YYYY-MM-DDTHH:mm:ss.sssZ"
ToISOString(d) ==
  Year4(d.ymd[1]) \o <<"-">> \o PadStart2(d.ymd[2]) \o <<"-">> \o PadStart2(d.ymd[3])
    \o <<"T">> \o PadStart2(GetUTCHours(d)) \o <<":">> \o PadStart2(GetUTCMinutes(d))
    \o <<":">> \o PadStart2(GetUTCSeconds(d)) \o <<".">>
    \o PadStart3(GetUTCMilliseconds(d)) \o <<"Z">>

\* new Date(`${year}-${month}-${day}T${hour}:${minute}:${second}Z`) for
\* two-digit fields and a four-digit year; a field out of range gives an
\* Invalid Date.  (Days beyond the end of a shorter month are outside the
\* timestamps the model draws.)
ParseISODate(year, month, day, hour, minute, second) ==
  LET y == ParseInt(year)
      mo == ParseInt(month)
      dd == ParseInt(day)
      h == ParseInt(hour)
      mi == ParseInt(minute)
      s == ParseInt(second)
  IN IF mo \in 1..12 /\ dd \in 1..31 /\ h \in 0..23 /\ mi \in 0..59 /\ s \in 0..59
     THEN [ymd |-> <<y, mo, dd>>, tod |-> ((h * 60 + mi) * 60 + s) * 1000]
     ELSE InvalidDate

(***************************************************************************)
(* What the upstream servers can answer.                                   *)
(***************************************************************************)
FilePrefix == "MRMS_ReflectivityAtLowestAltitude_00.50_"
FileSuffix == ".grib2.gz"

\* a yyyymmdd-hhmmss stamp as it is written in a file name
Stamp(y, mo, d, h, mi, s) ==
  Year4(y) \o PadStart2(mo) \o PadStart2(d) \o <<"-">>
    \o PadStart2(h) \o PadStart2(mi) \o PadStart2(s)

\* the stamps that occur in directory listings; the last one matches the
\* pattern but is not a date
ListingStamps ==
  { Stamp(2024, 6, 15, 12, 0, 0), Stamp(2024, 1, 1, 0, 10, 0),
    Stamp(2024, 1, 1, 0, 5, 0), Stamp(2024, 13, 1, 0, 0, 0) }

\* a link of the listing: <<text before the stamp, stamp, text after it>>
Links ==
  { <<FilePrefix, st, FileSuffix>> : st \in ListingStamps }
    \cup { <<"MRMS_ReflectivityAtLowestAltitude", <<"l", "a", "t", "e", "s", "t">>, FileSuffix>> }

\* the bodies of directory listings: the links, in any order, with repeats
Listings == UNION { [1..n -> Links] : n \in 0..MaxMatches }

\* A Buffer: its bytes, and what gunzip makes of it (corrupt: gunzip throws)
Buffer(bytes, inflated, corrupt) ==
  [bytes |-> bytes, inflated |-> inflated, corrupt |-> corrupt]

GribBytes == <<71, 82, 73, 66, 0, 0, 0, 2>>
HtmlBytes == <<60, 104, 116, 109, 108, 62>>
GzipBytes == <<31, 139, 8, 0>>

Buffers ==
  { Buffer(GribBytes, <<>>, TRUE),
    Buffer(GzipBytes, GribBytes, FALSE),
    Buffer(GzipBytes, HtmlBytes, FALSE),
    Buffer(GzipBytes, <<>>, TRUE),
    Buffer(HtmlBytes, <<>>, TRUE),
    Buffer(<<>>, <<>>, TRUE) }

\* the outcome of axios.get: an error (network, timeout, status other than
\* 200) or a response with a body
AxiosError == [error |-> TRUE]
ListingOutcomes == {AxiosError} \cup { [error |-> FALSE, data |-> l] : l \in Listings }
FileOutcomes == {AxiosError} \cup { [error |-> FALSE, data |-> b] : b \in Buffers }

\* The candidates of the fallback window (by minutesBack) for which the
\* upstream server may hold a file; every other probe is answered by an error.
ProbeHits == {0, 2, 60}
ProbeOutcomes(minutesBack) ==
  IF minutesBack \in ProbeHits THEN FileOutcomes ELSE {AxiosError}

(***************************************************************************)
(* parseGRIB2Data                                                          *)
(***************************************************************************)
\* buffer.toString("ascii", start, end): the bytes, high bit cleared
ToAscii(bytes, start, end) ==
  [i \in 1..(Min(end, Len(bytes)) - start) |-> bytes[start + i] % 128]

IsGzip(gribBuffer) ==
  /\ Len(gribBuffer.bytes) >= 3
  /\ gribBuffer.bytes[1] = 31
  /\ gribBuffer.bytes[2] = 139
  /\ gribBuffer.bytes[3] = 8

ParseThrows == [throws |-> TRUE]

\* a parser without the "GRIB" check
parseGRIB2DataUnchecked(gribBuffer) ==
  IF IsGzip(gribBuffer) /\ gribBuffer.corrupt THEN ParseThrows
  ELSE [found |-> TRUE, lat_min |-> 20, lat_max |-> 50,
        lon_min |-> -130, lon_max |-> -60]

\* the metadata, or ParseThrows when gunzip or the "GRIB" check throws
parseGRIB2Data(gribBuffer) ==
  IF IsGzip(gribBuffer) /\ gribBuffer.corrupt THEN ParseThrows
  ELSE LET buffer == IF IsGzip(gribBuffer) THEN gribBuffer.inflated ELSE gribBuffer.bytes
       IN IF ToAscii(buffer, 0, 4) # <<71, 82, 73, 66>> THEN ParseThrows
          ELSE [found |-> TRUE, lat_min |-> 20, lat_max |-> 50,
                lon_min |-> -130, lon_max |-> -60]

(***************************************************************************)
(* Strategy A: the directory listing                                       *)
(***************************************************************************)
\* the pattern MRMS_ReflectivityAtLowestAltitude_00\.50_(\d{8}-\d{6})\.grib2\.gz
MatchesPattern(link) ==
  /\ link[1] = FilePrefix
  /\ link[3] = FileSuffix
  /\ Len(link[2]) = 15
  /\ \A i \in 1..15 : IF i = 9 THEN link[2][i] = "-" ELSE IsDigit(link[2][i])

\* html.matchAll(filePattern): a match is <<matched text, group 1>>
RECURSIVE matchAll(_)
matchAll(html) ==
  IF Len(html) = 0 THEN <<>>
  ELSE LET rest == matchAll(Tail(html))
       IN IF MatchesPattern(Head(html))
          THEN <<<<Head(html), Head(html)[2]>>>> \o rest
          ELSE rest

CharRank(c) == IF IsDigit(c) THEN DigitVal(c) + 1 ELSE 0

\* a.localeCompare(b) on strings of digits and hyphens: -1, 0 or 1
RECURSIVE localeCompare(_, _)
localeCompare(a, b) ==
  IF Len(a) = 0 /\ Len(b) = 0 THEN 0
  ELSE IF Len(a) = 0 THEN -1
  ELSE IF Len(b) = 0 THEN 1
  ELSE IF CharRank(Head(a)) < CharRank(Head(b)) THEN -1
  ELSE IF CharRank(Head(a)) > CharRank(Head(b)) THEN 1
  ELSE localeCompare(Tail(a), Tail(b))

\* the comparator with its operands exchanged: an ascending sort
CompareMatchesAscending(a, b) == localeCompare(a[2], b[2])

\* the comparator (a, b) => b[1].localeCompare(a[1])
CompareMatches(a, b) == localeCompare(b[2], a[2])

\* insert m into a sorted sequence after every element it does not precede
RECURSIVE InsertSorted(_, _)
InsertSorted(m, sorted) ==
  IF Len(sorted) = 0 THEN <<m>>
  ELSE IF CompareMatches(m, Head(sorted)) < 0 THEN <<m>> \o sorted
  ELSE <<Head(sorted)>> \o InsertSorted(m, Tail(sorted))

\* matches.sort(comparator): a stable sort
RECURSIVE SortMatches(_)
SortMatches(matches) ==
  IF Len(matches) = 0 THEN <<>>
  ELSE InsertSorted(matches[Len(matches)], SortMatches(SubSeq(matches, 1, Len(matches) - 1)))

\* the stamp of the file Strategy A fetches for a listing with matches
LatestTimestamp(html) == SortMatches(matchAll(html))[1][2]
LatestFile(html) == SortMatches(matchAll(html))[1][1]

\* baseUrl + latestFile
FileUrlOf(file) == <<baseUrl>> \o file

\* the Date of the selected stamp with the time fields cut one place early
StampDateShifted(latestTimestamp) ==
  ParseISODate(Substring(latestTimestamp, 0, 4), Substring(latestTimestamp, 4, 6),
               Substring(latestTimestamp, 6, 8), Substring(latestTimestamp, 9, 11),
               Substring(latestTimestamp, 10, 12), Substring(latestTimestamp, 12, 14))

\* lines 111-120: the Date of the selected stamp
StampDate(latestTimestamp) ==
  ParseISODate(Substring(latestTimestamp, 0, 4), Substring(latestTimestamp, 4, 6),
               Substring(latestTimestamp, 6, 8), Substring(latestTimestamp, 9, 11),
               Substring(latestTimestamp, 11, 13), Substring(latestTimestamp, 13, 15))

Threw == [threw |-> TRUE]

\* What Strategy A yields once the selected file has been answered: the
\* dataset reference, or Threw when control reaches the fallback loop
\* (axios error, parse failure, toISOString of an Invalid Date).  A response
\* that axios resolves has status 200 (validateStatus) and a Buffer as data,
\* which is truthy even when empty, so the test of line 104 passes.
StrategyAResult(latestTimestamp, latestFile, outcome) ==
  IF outcome.error THEN Threw
  ELSE LET metadata == parseGRIB2Data(outcome.data)
           timestamp == StampDate(latestTimestamp)
       IN IF metadata = ParseThrows \/ timestamp = InvalidDate THEN Threw
          ELSE [timestamp |-> ToISOString(timestamp),
                fileUrl |-> FileUrlOf(latestFile),
                found |-> metadata.found,
                lat_min |-> metadata.lat_min, lat_max |-> metadata.lat_max,
                lon_min |-> metadata.lon_min, lon_max |-> metadata.lon_max]

(***************************************************************************)
(* Strategy B: the time-windowed probes                                    *)
(***************************************************************************)
\* the candidate rounded to the nearest even minute instead of down
CheckTimeNearest(loopNow, minutesBack) ==
  LET checkTime == DateOf(loopNow - minutesBack * 60000)
      roundedMinute == ((GetUTCMinutes(checkTime) + 1) \div 2) * 2
  IN SetUTCMilliseconds(SetUTCSeconds(SetUTCMinutes(checkTime, roundedMinute), 0), 0)

\* the candidate instant for minutesBack, from the instant the loop began
CheckTime(loopNow, minutesBack) ==
  LET checkTime == DateOf(loopNow - minutesBack * 60000)
      roundedMinute == (GetUTCMinutes(checkTime) \div 2) * 2
  IN SetUTCMilliseconds(SetUTCSeconds(SetUTCMinutes(checkTime, roundedMinute), 0), 0)

\* `${year}${month}${day}-${hour}${minute}00`
ProbeStamp(checkTime) ==
  Year4(checkTime.ymd[1]) \o PadStart2(checkTime.ymd[2]) \o PadStart2(checkTime.ymd[3])
    \o <<"-">> \o PadStart2(GetUTCHours(checkTime))
    \o PadStart2(GetUTCMinutes(checkTime)) \o <<"0", "0">>

ProbeUrl(checkTime) == <<baseUrl, FilePrefix, ProbeStamp(checkTime), FileSuffix>>

\* What one probe yields: the dataset reference, or Threw (try the next);
\* as in Strategy A, the test of line 166 passes for every resolved response
ProbeResult(checkTime, outcome) ==
  IF outcome.error THEN Threw
  ELSE LET metadata == parseGRIB2Data(outcome.data)
       IN IF metadata = ParseThrows THEN Threw
          ELSE [timestamp |-> ToISOString(checkTime),
                fileUrl |-> ProbeUrl(checkTime),
                found |-> metadata.found,
                lat_min |-> metadata.lat_min, lat_max |-> metadata.lat_max,
                lon_min |-> metadata.lon_min, lon_max |-> metadata.lon_max]

(***************************************************************************)
(* The state of the route module.                                          *)
(***************************************************************************)
VARIABLES
  now,              \* the wall clock, Date.now()
  cachedData,       \* the cache entry, or null
  isFetching,       \* the guard flag
  refreshInterval,  \* whether the background timer is installed
  nextTick,         \* the instant at which the background timer is next due
  inflight,         \* the runs of getLatestMRMSData awaiting an upstream answer,
                    \* each with the GET handler (if any) that awaits it
  last,             \* the request answered by the step just taken, or null
  ended,            \* how the run that ended in the step just taken ended
                    \* ("ok" or "failed"), or "none"
  prevRun           \* history: the latest call of getCachedOrFetchMRMSData that
                    \* ran a refresh (when, and how the refresh ended), or null

routeVars ==
  <<now, cachedData, isFetching, refreshInterval, nextTick, inflight, last, ended, prevRun>>

\* Strategy A's choice of a file, taken alone (lines 80-102)
VARIABLES
  html,             \* the body of the directory listing
  latest,           \* the match the sort puts first, or null before the sort
  requested         \* the URLs requested after the listing, in order

selectVars == <<html, latest, requested>>

\* The Display Controller (radar-display.tsx) and the page that holds it
VARIABLES
  isMounted,        \* the flag of the effect
  initPc,           \* where initMap stands: "import", "fetch", "done",
                    \* "returned" (line 31) or "failed" (line 102)
  map,              \* map.current: whether the map exists
  radarLayer,       \* radarLayer.current: the overlay layer last created, or null
  overlays,         \* the overlay layers on the map
  isLoading,        \* state of the controller; the setters are applied after
                    \* unmount too, where nothing renders their effect
  error,            \* state of the controller: [message |-> ...], or null
  lastUpdate,       \* state of the page, set through onLastUpdateChange; the
                    \* empty string at first
  pageIsLoading,    \* state of the page: the refresh button is disabled
  timer,            \* whether the 120 s interval is installed
  listener,         \* whether handleRefresh listens for refresh-radar
  fetches,          \* the calls of fetchRadar suspended at an await
  nextId,           \* the number the next call of fetchRadar gets
  signal,           \* the timer tick or window event of the step just taken
  completed,        \* the call of fetchRadar that ended in the step just taken
  settled           \* history: the calls of fetchRadar that have ended

displayVars ==
  <<isMounted, initPc, map, radarLayer, overlays, isLoading, error, lastUpdate,
    pageIsLoading, timer, listener, fetches, nextId, signal, completed, settled>>

vars == <<routeVars, selectVars, displayVars>>

\* a run of getLatestMRMSData, suspended at its first axios.get; waiter is
\* the suspended GET handler that started it, or null for a background run;
\* requests counts the upstream requests the run has issued
NewRun(waiter) ==
  [waiter |-> waiter, pc |-> "listing", latestTimestamp |-> <<>>, latestFile |-> <<>>,
   loopNow |-> 0, minutesBack |-> 0, requests |-> 1]

\* the frame of a GET handler that arrives in the current state: its
\* wall-clock timestamp (line 300, equal to now of line 229) and, as
\* history, the cache and the guard it found
Frame(ranRefresh) ==
  [wallClock |-> now, emptyAtCall |-> (cachedData = null), guardAtCall |-> isFetching,
   ranRefresh |-> ranRefresh, prevRun |-> prevRun]

\* the route module before it is loaded
RouteInit ==
  /\ now = StartTime
  /\ cachedData = null
  /\ isFetching = FALSE
  /\ refreshInterval = FALSE
  /\ nextTick = 0
  /\ inflight = <<>>
  /\ last = null
  /\ ended = "none"
  /\ prevRun = null

\* no listing at hand
SelectIdle ==
  /\ html = <<>>
  /\ latest = null
  /\ requested = <<>>

\* the controller when its effect has run and initMap awaits the import of
\* the map library (lines 14-26), in a page that has just rendered
DisplayInit ==
  /\ isMounted = TRUE
  /\ initPc = "import"
  /\ map = FALSE
  /\ radarLayer = null
  /\ overlays = {}
  /\ isLoading = TRUE
  /\ error = null
  /\ lastUpdate = <<>>
  /\ pageIsLoading = FALSE
  /\ timer = FALSE
  /\ listener = FALSE
  /\ fetches = {}
  /\ nextId = 1
  /\ signal = null
  /\ completed = null
  /\ settled = {}

\* the route module alone: no page is open
Init == RouteInit /\ SelectIdle /\ DisplayInit

(***************************************************************************)
(* getCachedOrFetchMRMSData and GET, as pure pieces                        *)
(***************************************************************************)
\* a freshness test with the comparison turned round
IsFreshInverted(entry, t) == entry # null /\ t - entry.lastFetched > CACHE_DURATION

\* a freshness test that forgets the age of the entry
IsFreshAnyAge(entry, t) == entry # null

\* line 232: the entry is served without a refresh
IsFresh(entry, t) == entry # null /\ t - entry.lastFetched < CACHE_DURATION

\* a guard test that never finds the guard held
GuardNeverHeld(fetching) == FALSE

\* line 199: the guard of refreshMRMSDataInBackground
GuardHeld(fetching) == fetching

\* a skipped call that runs the finally block and so releases the guard
SkipReleasesGuard(fetching) == FALSE

\* lines 199-202: isFetching after a call that found the guard held; the
\* early return is outside the try, so the finally block does not run
SkipRefresh(fetching) == fetching

\* a refresh that resets the guard at the end of the try block only
GuardKeptOnFailure(result) == (result = Threw)

\* lines 220-222: isFetching after the finally block of a run that ended with
\* result
GuardAfterRun(result) == FALSE

\* lines 210-213: the entry a successful refresh installs
NewCacheEntry(mrmData, t) ==
  [timestamp |-> mrmData.timestamp, fileUrl |-> mrmData.fileUrl,
   found |-> mrmData.found,
   lat_min |-> mrmData.lat_min, lat_max |-> mrmData.lat_max,
   lon_min |-> mrmData.lon_min, lon_max |-> mrmData.lon_max,
   lastFetched |-> t]

\* a refresh whose catch block clears the cache
CacheClearedOnFailure(cache, result, t) ==
  IF result = Threw THEN null ELSE NewCacheEntry(result, t)

\* lines 208-222: the cache after a run that ended with result
CacheAfterRun(cache, result, t) ==
  IF result = Threw THEN cache ELSE NewCacheEntry(result, t)

\* a call that throws whenever it had to refresh and holds no fresh entry
AfterRefreshStrict(cache) == Threw

\* lines 241-245: what the call yields after the refresh has been awaited
AfterRefresh(cache) == IF cache # null THEN cache ELSE Threw

TileUrl == "https://mesonet.agron.iastate.edu/cache/tile.py/1.0.0/nexrad-n0q-900913/{z}/{x}/{y}.png"
SecondarySource == "Iowa Environmental Mesonet NEXRAD"
PrimarySource == "MRMS_ReflectivityAtLowestAltitude (Cached)"
Coverage == "Continental United States (CONUS) only"

\* lines 334-348: the response of the outer catch block
Response500(errorMessage) ==
  [status |-> 500,
   body |-> [success |-> FALSE, error |-> errorMessage,
             message |-> "Failed to fetch radar data."]]

\* a handler without the inner try/catch: the resolver's error reaches the
\* outer catch block
ResponsePropagating(resolved, wallClock) ==
  IF resolved = Threw THEN Response500("Failed to fetch MRMS data")
  ELSE [status |-> 200,
        body |-> [success |-> TRUE, timestamp |-> resolved.timestamp, tile_url |-> TileUrl,
                  source |-> PrimarySource, coverage |-> Coverage,
                  bounds |-> [north |-> 50, south |-> 20, east |-> -60, west |-> -130]]]

\* lines 296-333: the response for what the resolver yielded (an entry or
\* Threw) to a request that arrived at wallClock.  Nothing in the outer try
\* block throws (toISOString of the current time, Response.json of a plain
\* object), so the outer catch block is never entered.
Response(resolved, wallClock) ==
  LET timestamp == IF resolved = Threw THEN ToISOString(DateOf(wallClock))
                   ELSE resolved.timestamp
      dataSource == IF resolved = Threw THEN SecondarySource ELSE PrimarySource
  IN [status |-> 200,
      body |-> [success |-> TRUE, timestamp |-> timestamp, tile_url |-> TileUrl,
                source |-> dataSource, coverage |-> Coverage,
                bounds |-> [north |-> 50, south |-> 20, east |-> -60, west |-> -130]]]

\* a handler that reads the clock for its timestamp after the resolver
AnsweredLateClock(frame, runFailed, resolved, t) ==
  [wallClock |-> frame.wallClock, emptyAtCall |-> frame.emptyAtCall,
   guardAtCall |-> frame.guardAtCall, ranRefresh |-> frame.ranRefresh,
   prevRun |-> frame.prevRun,
   runFailed |-> runFailed,
   threw |-> (resolved = Threw),
   returned |-> IF resolved = Threw THEN null ELSE resolved,
   returnTime |-> t,
   response |-> Response(resolved, t)]

\* the record of a request whose call yielded resolved at instant t
Answered(frame, runFailed, resolved, t) ==
  [wallClock |-> frame.wallClock, emptyAtCall |-> frame.emptyAtCall,
   guardAtCall |-> frame.guardAtCall, ranRefresh |-> frame.ranRefresh,
   prevRun |-> frame.prevRun,
   runFailed |-> runFailed,
   threw |-> (resolved = Threw),
   returned |-> IF resolved = Threw THEN null ELSE resolved,
   returnTime |-> t,
   response |-> Response(resolved, frame.wallClock)]

\* history: a call that ran a refresh, and how the refresh ended
RunCall(t, result) == [time |-> t, result |-> result]

(***************************************************************************)
(* Actions                                                                 *)
(***************************************************************************)
\* startBackgroundRefresh, run once when the module is loaded: one call of
\* refreshMRMSDataInBackground, then the interval timer
StartBackgroundRefresh ==
  /\ ~refreshInterval
  /\ IF GuardHeld(isFetching)
     THEN /\ isFetching' = SkipRefresh(isFetching)
          /\ UNCHANGED inflight
     ELSE /\ isFetching' = TRUE
          /\ inflight' = Append(inflight, NewRun(null))
  /\ refreshInterval' = TRUE
  /\ nextTick' = now + CACHE_DURATION
  /\ last' = null
  /\ ended' = "none"
  /\ UNCHANGED <<now, cachedData, prevRun>>

\* the interval callback: one call of refreshMRMSDataInBackground
TimerTick ==
  /\ refreshInterval
  /\ now >= nextTick
  /\ nextTick <= MaxNow
  /\ IF GuardHeld(isFetching)
     THEN /\ isFetching' = SkipRefresh(isFetching)
          /\ UNCHANGED inflight
     ELSE /\ isFetching' = TRUE
          /\ inflight' = Append(inflight, NewRun(null))
  /\ nextTick' = nextTick + CACHE_DURATION
  /\ last' = null
  /\ ended' = "none"
  /\ UNCHANGED <<now, cachedData, refreshInterval, prevRun>>

\* GET /api/radar-data arrives: the handler runs up to its first suspension,
\* which is the end of the handler unless it starts a refresh of its own
Request ==
  /\ refreshInterval
  /\ IF IsFresh(cachedData, now)
     THEN /\ last' = Answered(Frame(FALSE), FALSE, cachedData, now)
          /\ ended' = "none"
          /\ UNCHANGED <<isFetching, inflight, prevRun>>
     ELSE IF GuardHeld(isFetching)
     THEN /\ last' = Answered(Frame(FALSE), FALSE, AfterRefresh(cachedData), now)
          /\ ended' = "none"
          /\ isFetching' = SkipRefresh(isFetching)
          /\ UNCHANGED <<inflight, prevRun>>
     ELSE /\ isFetching' = TRUE
          /\ inflight' = Append(inflight, NewRun(Frame(TRUE)))
          /\ prevRun' = RunCall(now, "running")
          /\ last' = null
          /\ ended' = "none"
  /\ UNCHANGED <<now, cachedData, refreshInterval, nextTick>>

RemoveAt(seq, i) == SubSeq(seq, 1, i - 1) \o SubSeq(seq, i + 1, Len(seq))

\* Run i ends with result (a dataset reference, or Threw): the rest of
\* refreshMRMSDataInBackground, then the rest of the request that awaited it
FinishRun(i, result) ==
  LET waiter == inflight[i].waiter
  IN /\ cachedData' = CacheAfterRun(cachedData, result, now)
     /\ isFetching' = GuardAfterRun(result)
     /\ inflight' = RemoveAt(inflight, i)
     /\ ended' = IF result = Threw THEN "failed" ELSE "ok"
     /\ IF waiter = null
        THEN /\ last' = null
             /\ UNCHANGED prevRun
        ELSE /\ last' = Answered(waiter, result = Threw, AfterRefresh(cachedData'), now)
             /\ prevRun' = RunCall(waiter.wallClock, IF result = Threw THEN "failed" ELSE "ok")
     /\ UNCHANGED <<now, refreshInterval, nextTick>>

\* Run i leaves Strategy A and issues the first probe of the fallback loop
StartFallback(i) ==
  /\ inflight' = [inflight EXCEPT ![i] = [@ EXCEPT !.pc = "probe", !.loopNow = now,
                                                   !.minutesBack = 0,
                                                   !.requests = @ + 1]]
  /\ last' = null
  /\ ended' = "none"
  /\ UNCHANGED <<now, cachedData, isFetching, refreshInterval, nextTick, prevRun>>

\* the directory listing is answered
ListingResponse(i, outcome) ==
  /\ inflight[i].pc = "listing"
  /\ IF ~outcome.error /\ Len(matchAll(outcome.data)) > 0
     THEN /\ inflight' = [inflight EXCEPT ![i] =
                            [@ EXCEPT !.pc = "file",
                                      !.latestTimestamp = LatestTimestamp(outcome.data),
                                      !.latestFile = LatestFile(outcome.data),
                                      !.requests = @ + 1]]
          /\ last' = null
          /\ ended' = "none"
          /\ UNCHANGED <<now, cachedData, isFetching, refreshInterval, nextTick, prevRun>>
     ELSE StartFallback(i)

\* the file selected from the listing is answered
FileResponse(i, outcome) ==
  /\ inflight[i].pc = "file"
  /\ LET result == StrategyAResult(inflight[i].latestTimestamp, inflight[i].latestFile, outcome)
     IN IF result = Threw THEN StartFallback(i) ELSE FinishRun(i, result)

\* a probe of the fallback loop is answered
ProbeResponse(i, outcome) ==
  /\ inflight[i].pc = "probe"
  /\ LET result == ProbeResult(CheckTime(inflight[i].loopNow, inflight[i].minutesBack), outcome)
     IN IF result # Threw THEN FinishRun(i, result)
        ELSE IF inflight[i].minutesBack + 2 <= 60
        THEN /\ inflight' = [inflight EXCEPT ![i] = [@ EXCEPT !.minutesBack = @ + 2,
                                                              !.requests = @ + 1]]
             /\ last' = null
             /\ ended' = "none"
             /\ UNCHANGED <<now, cachedData, isFetching, refreshInterval, nextTick, prevRun>>
        ELSE FinishRun(i, Threw)

\* time passes, up to the instant the timer is due
Advance ==
  /\ refreshInterval
  /\ now < Min(nextTick, MaxNow)
  /\ now' = Min(now + TickStep, Min(nextTick, MaxNow))
  /\ last' = null
  /\ ended' = "none"
  /\ UNCHANGED <<cachedData, isFetching, refreshInterval, nextTick, inflight, prevRun>>

Next ==
  \/ StartBackgroundRefresh /\ UNCHANGED <<selectVars, displayVars>>
  \/ TimerTick /\ UNCHANGED <<selectVars, displayVars>>
  \/ Request /\ UNCHANGED <<selectVars, displayVars>>
  \/ \E i \in 1..Len(inflight) : \E outcome \in ListingOutcomes :
       ListingResponse(i, outcome) /\ UNCHANGED <<selectVars, displayVars>>
  \/ \E i \in 1..Len(inflight) : \E outcome \in FileOutcomes :
       FileResponse(i, outcome) /\ UNCHANGED <<selectVars, displayVars>>
  \/ \E i \in 1..Len(inflight) : \E outcome \in ProbeOutcomes(inflight[i].minutesBack) :
       ProbeResponse(i, outcome) /\ UNCHANGED <<selectVars, displayVars>>
  \/ Advance /\ UNCHANGED <<selectVars, displayVars>>

Spec == Init /\ [][Next]_vars

\* an upstream request of a run in flight is answered
UpstreamAnswers ==
  \/ \E i \in 1..Len(inflight) : \E outcome \in ListingOutcomes : ListingResponse(i, outcome)
  \/ \E i \in 1..Len(inflight) : \E outcome \in FileOutcomes : FileResponse(i, outcome)
  \/ \E i \in 1..Len(inflight) :
       \E outcome \in ProbeOutcomes(inflight[i].minutesBack) : ProbeResponse(i, outcome)

\* Every axios.get carries a timeout (10 s for the listing, 15 s for a file),
\* so each upstream request is answered, by a response or by an error.
FairSpec == Spec /\ WF_routeVars(UpstreamAnswers)

(***************************************************************************)
(* Strategy A's choice of a file, for any listing                          *)
(***************************************************************************)
MaxLinks == 4

\* the listings of Spec, and one more file name
SelectLinks == Links \cup { <<FilePrefix, Stamp(2024, 1, 1, 0, 0, 0), FileSuffix>> }
SelectListings == UNION { [1..n -> SelectLinks] : n \in 0..MaxLinks }

SelectInit ==
  /\ html \in SelectListings
  /\ latest = null
  /\ requested = <<>>
  /\ RouteInit
  /\ DisplayInit

\* lines 86-90: the sort and its first element
SortListing ==
  /\ latest = null
  /\ Len(matchAll(html)) > 0
  /\ latest' = [latestTimestamp |-> LatestTimestamp(html), latestFile |-> LatestFile(html)]
  /\ UNCHANGED <<html, requested>>

\* lines 94-102: the request for the selected file
FetchLatest ==
  /\ latest # null
  /\ requested = <<>>
  /\ requested' = Append(requested, FileUrlOf(latest.latestFile))
  /\ UNCHANGED <<html, latest>>

SelectNext ==
  \/ SortListing /\ UNCHANGED <<routeVars, displayVars>>
  \/ FetchLatest /\ UNCHANGED <<routeVars, displayVars>>

SelectSpec == SelectInit /\ [][SelectNext]_vars

(***************************************************************************)
(* The Display Controller: components/radar-display.tsx, and the refresh   *)
(* button of app/page.tsx                                                  *)
(***************************************************************************)
MaxFetches == 3

\* what fetch("/api/radar-data") can do: reject, resolve with a status that
\* is not OK, resolve with an OK status
FetchOutcomes == {"rejects", "notOk", "ok"}

\* what response.json() can yield: the two bodies the endpoint sends with
\* status 200, a body with an error field, or a rejection
JsonRejects == [rejects |-> TRUE]
EndpointBodies ==
  { Response(Threw, StartTime).body,
    Response([timestamp |-> ToISOString(StampDate(Stamp(2024, 6, 15, 12, 0, 0)))],
             StartTime).body }
ErrorBody == Response500("Failed to fetch MRMS data").body
JsonOutcomes == EndpointBodies \cup {ErrorBody, JsonRejects}

\* data.error is set
HasError(data) == "error" \in DOMAIN data

\* a removal that leaves the layer on the map
RemoveLayerKeeps(layers, layer) == layers

\* lines 64-66: map.current.removeLayer(radarLayer.current)
RemoveLayer(layers, layer) == layers \ {layer}

\* lines 69-73: the overlay layer a call of fetchRadar creates
TileLayer(id, data) == [by |-> id, url |-> data.tile_url]

\* a report that keeps the first timestamp
ReportedTimestampKept(previous, data) ==
  IF previous # <<>> THEN previous ELSE data.timestamp

\* line 75: onLastUpdateChange(data.timestamp)
ReportedTimestamp(previous, data) == data.timestamp

\* a catch block that leaves the loading flag set
CaughtStateLoading(message) == [error |-> [message |-> message], isLoading |-> TRUE]

\* lines 79-82: the state the catch block of fetchRadar sets
CaughtState(message) == [error |-> [message |-> message], isLoading |-> FALSE]

\* an initMap that never resumes after its first fetch
ResumesNever(f) == FALSE

\* line 85: initMap awaits the first call of fetchRadar only
Resumes(f) == f.awaited

\* lines 48-53: fetchRadar up to its first await
StartFetch(awaited) ==
  /\ isLoading' = TRUE
  /\ error' = null
  /\ fetches' = fetches \cup {[id |-> nextId, pc |-> "fetch", awaited |-> awaited]}
  /\ nextId' = nextId + 1

\* lines 85-96: when the call that initMap awaits has ended, initMap installs
\* the interval and the listener; the function it returns is dropped (line 108)
AfterFetch(f) ==
  IF Resumes(f)
  THEN /\ timer' = TRUE
       /\ listener' = TRUE
       /\ initPc' = "done"
  ELSE UNCHANGED <<timer, listener, initPc>>

\* lines 79-82: call f of fetchRadar ends in its catch block
Caught(f, message) ==
  /\ error' = CaughtState(message).error
  /\ isLoading' = CaughtState(message).isLoading
  /\ fetches' = fetches \ {f}
  /\ completed' = [id |-> f.id, ok |-> FALSE, data |-> null]
  /\ settled' = settled \cup {[id |-> f.id, ok |-> FALSE]}
  /\ signal' = null
  /\ AfterFetch(f)
  /\ UNCHANGED <<isMounted, map, radarLayer, overlays, lastUpdate, pageIsLoading, nextId>>

\* lines 64-78: call f of fetchRadar has its data
Swapped(f, data) ==
  LET removed == IF radarLayer # null /\ map THEN RemoveLayer(overlays, radarLayer)
                 ELSE overlays
  IN /\ IF map
        THEN /\ radarLayer' = TileLayer(f.id, data)
             /\ overlays' = removed \cup {TileLayer(f.id, data)}
             /\ lastUpdate' = ReportedTimestamp(lastUpdate, data)
        ELSE /\ overlays' = removed
             /\ UNCHANGED <<radarLayer, lastUpdate>>
     /\ isLoading' = FALSE
     /\ fetches' = fetches \ {f}
     /\ completed' = [id |-> f.id, ok |-> TRUE, data |-> data]
     /\ settled' = settled \cup {[id |-> f.id, ok |-> TRUE]}
     /\ signal' = null
     /\ AfterFetch(f)
     /\ UNCHANGED <<isMounted, map, error, pageIsLoading, nextId>>

\* lines 26-85: the imports of the map library and its style sheet resolve;
\* initMap creates the map and makes the first call of fetchRadar, unless the
\* controller was unmounted meanwhile
ImportResolves ==
  /\ initPc = "import"
  /\ IF isMounted
     THEN /\ map' = TRUE
          /\ initPc' = "fetch"
          /\ StartFetch(TRUE)
     ELSE /\ initPc' = "returned"
          /\ UNCHANGED <<map, isLoading, error, fetches, nextId>>
  /\ signal' = null
  /\ completed' = null
  /\ UNCHANGED <<isMounted, radarLayer, overlays, lastUpdate, pageIsLoading, timer,
                 listener, settled>>

\* lines 102-105: an import rejects
ImportRejects ==
  /\ initPc = "import"
  /\ initPc' = "failed"
  /\ error' = [message |-> "Failed to load map library"]
  /\ signal' = null
  /\ completed' = null
  /\ UNCHANGED <<isMounted, map, radarLayer, overlays, isLoading, lastUpdate,
                 pageIsLoading, timer, listener, fetches, nextId, settled>>

\* lines 53-56: fetch settles
FetchSettles(f, outcome) ==
  /\ f.pc = "fetch"
  /\ IF outcome = "rejects" THEN Caught(f, "Failed to fetch")
     ELSE IF outcome = "notOk" THEN Caught(f, "Failed to fetch radar data")
     ELSE /\ fetches' = (fetches \ {f}) \cup {[f EXCEPT !.pc = "json"]}
          /\ signal' = null
          /\ completed' = null
          /\ UNCHANGED <<isMounted, initPc, map, radarLayer, overlays, isLoading, error,
                         lastUpdate, pageIsLoading, timer, listener, nextId, settled>>

\* lines 58-78: response.json() settles
JsonSettles(f, outcome) ==
  /\ f.pc = "json"
  /\ IF outcome = JsonRejects THEN Caught(f, "Unexpected end of JSON input")
     ELSE IF HasError(outcome) THEN Caught(f, outcome.error)
     ELSE Swapped(f, outcome)

\* A timer tick (kind "tick", lines 87-91) or a refresh-radar event on
\* window (lines 93-96) reaches the controller.
Deliver(kind) ==
  LET invoked == IF kind = "tick" THEN map ELSE listener
  IN /\ invoked => nextId <= MaxFetches
     /\ signal' = [kind |-> kind, mounted |-> isMounted,
                   initialEnded |-> (\E e \in settled : e.id = 1),
                   invoked |-> invoked]
     /\ IF invoked THEN StartFetch(FALSE)
        ELSE UNCHANGED <<isLoading, error, fetches, nextId>>
     /\ completed' = null
     /\ UNCHANGED <<isMounted, initPc, map, radarLayer, overlays, lastUpdate, timer,
                    listener, settled>>

\* lines 87-91: the interval fires
IntervalTick ==
  /\ timer
  /\ Deliver("tick")
  /\ UNCHANGED pageIsLoading

\* a button that stays enabled
ButtonNeverDisabled(loading) == FALSE

\* page.tsx line 66: disabled={isLoading}
ButtonDisabled(loading) == loading

\* page.tsx lines 28-36: the refresh button, while it is enabled, is pressed
handleRefresh ==
  /\ isMounted
  /\ ~ButtonDisabled(pageIsLoading)
  /\ pageIsLoading' = TRUE
  /\ Deliver("refresh-radar")

\* a refresh-radar event is dispatched on window by another party, such as
\* an instance of the page mounted later in the same window
DispatchRefresh ==
  /\ Deliver("refresh-radar")
  /\ UNCHANGED pageIsLoading

\* lines 110-116: the cleanup of the effect
Unmount ==
  /\ isMounted
  /\ isMounted' = FALSE
  /\ map' = FALSE
  /\ overlays' = {}
  /\ signal' = null
  /\ completed' = null
  /\ UNCHANGED <<initPc, radarLayer, isLoading, error, lastUpdate, pageIsLoading, timer,
                 listener, fetches, nextId, settled>>

DisplayStart == DisplayInit /\ RouteInit /\ SelectIdle

DisplayNext ==
  \/ ImportResolves /\ UNCHANGED <<routeVars, selectVars>>
  \/ ImportRejects /\ UNCHANGED <<routeVars, selectVars>>
  \/ \E f \in fetches : \E outcome \in FetchOutcomes :
       FetchSettles(f, outcome) /\ UNCHANGED <<routeVars, selectVars>>
  \/ \E f \in fetches : \E outcome \in JsonOutcomes :
       JsonSettles(f, outcome) /\ UNCHANGED <<routeVars, selectVars>>
  \/ IntervalTick /\ UNCHANGED <<routeVars, selectVars>>
  \/ handleRefresh /\ UNCHANGED <<routeVars, selectVars>>
  \/ DispatchRefresh /\ UNCHANGED <<routeVars, selectVars>>
  \/ Unmount /\ UNCHANGED <<routeVars, selectVars>>

DisplaySpec == DisplayStart /\ [][DisplayNext]_vars

(***************************************************************************)
(* Properties of the resolver and of the endpoint                          *)
(***************************************************************************)
\* the runs in flight that a GET handler started and awaits
RequestRuns == { i \in 1..Len(inflight) : inflight[i].waiter # null }

\* C1 (as stated): two calls of getCachedOrFetchMRMSData started less than
\* CACHE_DURATION apart never both run a refresh: no call starts a run when
\* an earlier call that ran one began less than CACHE_DURATION before it.
C1_AtMostOneSequence ==
  \A i \in RequestRuns :
    LET call == inflight[i].waiter
    IN call.prevRun # null => call.wallClock - call.prevRun.time >= CACHE_DURATION

\* C1 (amended): when two calls started less than CACHE_DURATION apart both
\* run a refresh, the refresh of the earlier call failed; so two such calls
\* cause one request sequence at most unless the first one's refresh fails.
C1_SecondSequenceOnlyAfterFailure ==
  \A i \in RequestRuns :
    LET call == inflight[i].waiter
    IN (call.prevRun # null /\ call.wallClock - call.prevRun.time < CACHE_DURATION)
         => call.prevRun.result = "failed"

\* a call runs a refresh less than CACHE_DURATION after a call whose refresh failed
C1_Witness ==
  \E i \in RequestRuns :
    LET call == inflight[i].waiter
    IN /\ call.prevRun # null
       /\ call.wallClock - call.prevRun.time < CACHE_DURATION
       /\ call.prevRun.result = "failed"

\* C2: a request that finds an entry younger than CACHE_DURATION is answered
\* in the same step with that entry, and the step starts no upstream request
\* and leaves cachedData and isFetching as they were.
C2_FreshEntryServed ==
  [][(Request /\ cachedData # null /\ now - cachedData.lastFetched < CACHE_DURATION)
       => /\ last' # null
          /\ ~last'.threw
          /\ last'.returned = cachedData
          /\ ~last'.ranRefresh
          /\ cachedData' = cachedData
          /\ isFetching' = isFetching
          /\ inflight' = inflight]_vars

\* a fresh entry has been served while a refresh was in flight
C2_Witness ==
  /\ last # null
  /\ last.returned # null
  /\ last.returned = cachedData
  /\ last.returnTime - last.returned.lastFetched < CACHE_DURATION
  /\ last.returnTime - last.returned.lastFetched > 0
  /\ last.guardAtCall
  /\ ~last.ranRefresh

\* C3: at most one run of getLatestMRMSData is in flight, and isFetching is
\* true exactly while one is.
C3_SingleFlight ==
  /\ Len(inflight) <= 1
  /\ isFetching <=> (Len(inflight) = 1)

\* a run started by a request is still in flight after a timer tick that
\* came while it was in flight
C3_Witness ==
  /\ isFetching
  /\ Len(inflight) = 1
  /\ inflight[1].waiter # null
  /\ inflight[1].waiter.wallClock < nextTick - CACHE_DURATION

\* C4: a call of refreshMRMSDataInBackground made while isFetching is true (by
\* the timer, or by a request without a fresh entry) starts no run, changes
\* neither cachedData nor isFetching nor the run in flight, and a request that
\* made it is answered in the same step.
C4_SkippedRefreshIsNoOp ==
  [][(isFetching /\ (TimerTick \/ (Request /\ ~(cachedData # null
                                               /\ now - cachedData.lastFetched < CACHE_DURATION))))
       => /\ cachedData' = cachedData
          /\ isFetching' = TRUE
          /\ inflight' = inflight
          /\ (Request => last' # null /\ ~last'.ranRefresh)]_vars

\* a request with an empty cache has been answered while a refresh was in
\* flight, and that refresh is still in flight
C4_Witness ==
  /\ last # null
  /\ last.guardAtCall
  /\ last.emptyAtCall
  /\ ~last.ranRefresh
  /\ isFetching
  /\ Len(inflight) = 1

\* the fields of a cache entry
EntryFields ==
  {"timestamp", "fileUrl", "found", "lat_min", "lat_max", "lon_min", "lon_max", "lastFetched"}

\* an entry with every field set
CompleteEntry(entry) ==
  /\ DOMAIN entry = EntryFields
  /\ Len(entry.timestamp) = 24
  /\ Len(entry.fileUrl) = 4
  /\ entry.fileUrl[1] = "https://mrms.ncep.noaa.gov/data/2D/ReflectivityAtLowestAltitude/"
  /\ entry.lat_min = 20 /\ entry.lat_max = 50
  /\ entry.lon_min = -130 /\ entry.lon_max = -60
  /\ entry.lastFetched \in StartTime..MaxNow

\* C5: cachedData changes only in the step that ends a run with success, and
\* then to a complete entry stamped with the current time; the step that ends
\* a run in failure leaves cachedData as it was; and every cached entry is
\* complete.
C5_CacheAtomic ==
  [][/\ cachedData' # cachedData
          => /\ ended' = "ok"
             /\ Len(inflight') < Len(inflight)
             /\ CompleteEntry(cachedData')
             /\ cachedData'.lastFetched = now
     /\ ended' = "failed" => cachedData' = cachedData
     /\ ended' = "ok" => cachedData' # null /\ cachedData'.lastFetched = now
     /\ cachedData = null \/ CompleteEntry(cachedData)]_vars

\* a request ran a refresh that failed and was answered with the entry that
\* was cached before, which is still the cache entry
C5_Witness ==
  /\ last # null
  /\ last.ranRefresh
  /\ last.runFailed
  /\ last.returned # null
  /\ last.returned = cachedData
  /\ CompleteEntry(cachedData)
  /\ cachedData.lastFetched < last.wallClock

\* C6 (as stated): a call that runs a refresh in which both strategies fail throws.
C6_FailedRefreshThrows ==
  (last # null /\ last.ranRefresh /\ last.runFailed) => last.threw

\* C6 (amended): a call that runs a refresh in which both strategies fail
\* throws if and only if the cache was empty; when an entry (a stale one) is
\* cached, the call returns that entry.
C6_FailedRefreshThrowsIffEmpty ==
  (last # null /\ last.ranRefresh /\ last.runFailed)
    => /\ last.threw <=> last.emptyAtCall
       /\ ~last.emptyAtCall => last.returned = cachedData /\ last.returned # null

\* a call with an empty cache ran a refresh that failed, and threw
C6_Witness ==
  /\ last # null
  /\ last.ranRefresh
  /\ last.runFailed
  /\ last.emptyAtCall
  /\ last.threw

\* C7: an entry that is CACHE_DURATION old or older when it is returned was
\* returned by a call that ran a refresh itself or found one in flight; and
\* lastFetched never lies in the future.
C7_StaleOnlyAfterRefreshAttempt ==
  /\ (last # null /\ last.returned # null
        /\ last.returnTime - last.returned.lastFetched >= CACHE_DURATION)
       => (last.ranRefresh /\ last.runFailed) \/ (last.guardAtCall /\ ~last.ranRefresh)
  /\ cachedData # null => cachedData.lastFetched <= now

\* a stale entry has been returned by a call that found a refresh in flight
C7_Witness ==
  /\ last # null
  /\ last.returned # null
  /\ last.returnTime - last.returned.lastFetched >= CACHE_DURATION
  /\ last.guardAtCall
  /\ ~last.ranRefresh

\* C8: every response is HTTP 200 with success true, the tile template of
\* the secondary provider, the fixed coverage string and the CONUS bounds.
C8_AlwaysDegradedSuccess ==
  last # null =>
    /\ last.response.status = 200
    /\ last.response.body.success = TRUE
    /\ last.response.body.tile_url
         = "https://mesonet.agron.iastate.edu/cache/tile.py/1.0.0/nexrad-n0q-900913/{z}/{x}/{y}.png"
    /\ last.response.body.coverage = "Continental United States (CONUS) only"
    /\ last.response.body.bounds = [north |-> 50, south |-> 20, east |-> -60, west |-> -130]

\* a request whose resolver call threw after a failed refresh has been answered
C8_Witness ==
  /\ last # null
  /\ last.threw
  /\ last.runFailed
  /\ last.response.status = 200

\* the ISO string of an instant of the modelled day, written out field by field
IsoOfInstant(ms) ==
  <<"2", "0", "2", "4", "-", "0", "6", "-", "1", "5", "T">>
    \o <<Digits[(ms \div 36000000) + 1], Digits[((ms \div 3600000) % 10) + 1], ":",
         Digits[((ms \div 600000) % 6) + 1], Digits[((ms \div 60000) % 10) + 1], ":",
         Digits[((ms \div 10000) % 6) + 1], Digits[((ms \div 1000) % 10) + 1], ".",
         Digits[((ms \div 100) % 10) + 1], Digits[((ms \div 10) % 10) + 1],
         Digits[(ms % 10) + 1], "Z">>

\* C9 (as stated): the response to a request whose refresh failed in both
\* strategies names the secondary provider and carries the time of the request.
C9_FailedResolutionIsSecondary ==
  (last # null /\ last.ranRefresh /\ last.runFailed)
    => /\ last.response.body.source = "Iowa Environmental Mesonet NEXRAD"
       /\ last.response.body.timestamp = IsoOfInstant(last.wallClock)

\* C9 (amended): the response names the secondary provider and carries the
\* wall-clock time at which the request arrived exactly when the resolver
\* call threw, that is when no refresh succeeded for it and the cache is
\* empty; a request whose refresh failed while an entry was cached is
\* answered with the primary label and the timestamp of that entry.
C9_SecondaryIffResolverThrew ==
  /\ (last # null /\ last.threw)
       => /\ last.response.body.source = "Iowa Environmental Mesonet NEXRAD"
          /\ last.response.body.timestamp = IsoOfInstant(last.wallClock)
  /\ (last # null /\ ~last.threw)
       => /\ last.response.body.source = "MRMS_ReflectivityAtLowestAltitude (Cached)"
          /\ last.response.body.timestamp = last.returned.timestamp
  /\ (last # null /\ last.ranRefresh /\ last.runFailed) => (last.threw <=> last.emptyAtCall)

\* a request's refresh failed with an empty cache, and time passed between
\* the arrival of the request and its answer
C9_Witness ==
  /\ last # null
  /\ last.threw
  /\ last.ranRefresh
  /\ last.runFailed
  /\ last.returnTime > last.wallClock
  /\ last.response.body.source = "Iowa Environmental Mesonet NEXRAD"

\* the ISO string of the instant a file stamp yyyymmdd-hhmmss writes
IsoOfStamp(st) ==
  <<st[1], st[2], st[3], st[4], "-", st[5], st[6], "-", st[7], st[8], "T",
    st[10], st[11], ":", st[12], st[13], ":", st[14], st[15], ".", "0", "0", "0", "Z">>

\* C10 (as stated, first half): a request that arrives while the cache is
\* empty runs a refresh itself.
C10_EmptyCacheTriggersRefresh ==
  (last # null /\ last.emptyAtCall) => last.ranRefresh

\* C10 (amended): a request that arrives while the cache is empty and no
\* refresh is in flight runs a refresh itself, and when Strategy A of that
\* refresh succeeds (a file of the listing is fetched and parsed) the response
\* carries the instant written in the selected file name and the primary label.
C10_EmptyCacheIdleGuardTriggersRefresh ==
  [][/\ (last' # null /\ last'.emptyAtCall /\ ~last'.guardAtCall) => last'.ranRefresh
     /\ (Request /\ cachedData = null /\ ~isFetching)
          => /\ Len(inflight') = Len(inflight) + 1
             /\ inflight'[Len(inflight')].waiter # null
             /\ inflight'[Len(inflight')].pc = "listing"
     /\ \A i \in 1..Len(inflight) :
          (/\ inflight[i].pc = "file"
           /\ inflight[i].waiter # null
           /\ inflight[i].waiter.emptyAtCall
           /\ Len(inflight') < Len(inflight))
            => /\ last' # null
               /\ last'.response.body.source = "MRMS_ReflectivityAtLowestAltitude (Cached)"
               /\ last'.response.body.timestamp = IsoOfStamp(inflight[i].latestTimestamp)]_vars

\* a request that found the cache empty ran a refresh and was answered with
\* the instant of the file MRMS_..._20240615-120000.grib2.gz
C10_Witness ==
  /\ last # null
  /\ last.emptyAtCall
  /\ last.ranRefresh
  /\ last.response.body.source = "MRMS_ReflectivityAtLowestAltitude (Cached)"
  /\ last.response.body.timestamp
       = <<"2", "0", "2", "4", "-", "0", "6", "-", "1", "5", "T", "1", "2", ":",
           "0", "0", ":", "0", "0", ".", "0", "0", "0", "Z">>
  /\ last.response.body.bounds = [north |-> 50, south |-> 20, east |-> -60, west |-> -130]
  /\ last.returned.fileUrl[3] = Stamp(2024, 6, 15, 12, 0, 0)

(***************************************************************************)
(* Properties of the two resolution strategies                             *)
(***************************************************************************)
\* t rounded down to the even minute, seconds and milliseconds zero
EvenMinuteBefore(t) == (t \div 120000) * 120000

\* yyyymmdd-hhmm00 of an instant of the modelled day
StampOfInstant(ms) ==
  <<"2", "0", "2", "4", "0", "6", "1", "5", "-",
    Digits[(ms \div 36000000) + 1], Digits[((ms \div 3600000) % 10) + 1],
    Digits[((ms \div 600000) % 6) + 1], Digits[((ms \div 60000) % 10) + 1],
    "0", "0">>

\* an upstream answer that carries GRIB data, plain or gzip-compressed
HoldsGrib(outcome) ==
  /\ ~outcome.error
  /\ LET b == outcome.data
         magic == Len(b.bytes) >= 3 /\ SubSeq(b.bytes, 1, 3) = <<31, 139, 8>>
         content == IF magic THEN b.inflated ELSE b.bytes
     IN /\ ~(magic /\ b.corrupt)
        /\ Len(content) >= 4
        /\ SubSeq(content, 1, 4) = <<71, 82, 73, 66>>

\* C17: once Strategy A has failed, the refresh probes the candidates
\* minutesBack = 0, 2, ..., 60 in this order, each candidate being the instant
\* the loop began minus minutesBack, rounded down to the even minute; a failed
\* probe moves to the next older candidate, the first probe that succeeds ends
\* the refresh with that candidate's time as the timestamp of the entry, and
\* the refresh fails only when the probe for minutesBack = 60 has failed.
C17_FallbackProbesWindow ==
  [][/\ \A i \in 1..Len(inflight) :
          (inflight[i].pc # "probe" /\ Len(inflight') = Len(inflight)
             /\ inflight'[i].pc = "probe")
            => /\ inflight'[i].minutesBack = 0
               /\ inflight'[i].loopNow = now
     /\ \A i \in { j \in 1..Len(inflight) : inflight[j].pc = "probe" } :
        \A outcome \in ProbeOutcomes(inflight[i].minutesBack) :
          ProbeResponse(i, outcome)
            => LET run == inflight[i]
                   candidate == EvenMinuteBefore(run.loopNow - run.minutesBack * 60000)
               IN /\ run.minutesBack \in { 2 * k : k \in 0..30 }
                  /\ run.loopNow <= now
                  /\ IF HoldsGrib(outcome)
                     THEN /\ ended' = "ok"
                          /\ inflight' = RemoveAt(inflight, i)
                          /\ cachedData'.timestamp = IsoOfInstant(candidate)
                          /\ cachedData'.fileUrl[3] = StampOfInstant(candidate)
                     ELSE IF run.minutesBack < 60
                     THEN /\ ended' = "none"
                          /\ inflight' = [inflight EXCEPT ![i].minutesBack = @ + 2,
                                                          ![i].requests = @ + 1]
                          /\ EvenMinuteBefore(run.loopNow - (run.minutesBack + 2) * 60000)
                               < candidate
                          /\ cachedData' = cachedData
                     ELSE /\ ended' = "failed"
                          /\ inflight' = RemoveAt(inflight, i)
                          /\ cachedData' = cachedData]_vars

\* the loop began at an odd minute and has reached its last candidate, after
\* thirty failed probes
C17_Witness ==
  /\ Len(inflight) = 1
  /\ inflight[1].pc = "probe"
  /\ inflight[1].minutesBack = 60
  /\ (inflight[1].loopNow \div 60000) % 2 = 1

\* C18: when the listing request fails, the listing has no matching file
\* name, the request for the selected file fails, or its body is empty or is
\* not valid GRIB or gzip data, the same refresh goes on with the first probe
\* of Strategy B; the answer to the file request never fails the refresh, and
\* a refresh that Strategy A completes has issued two requests and no probe.
C18_StrategyAFailureFallsBack ==
  [][/\ \A i \in { j \in 1..Len(inflight) : inflight[j].pc = "listing" } :
        \A outcome \in ListingOutcomes :
          ((outcome.error \/ \A k \in 1..Len(outcome.data) :
                                  outcome.data[k][1] # FilePrefix)
             /\ ListingResponse(i, outcome))
            => /\ Len(inflight') = Len(inflight)
               /\ inflight'[i].pc = "probe"
               /\ inflight'[i].minutesBack = 0
               /\ isFetching'
               /\ ended' = "none"
     /\ \A i \in { j \in 1..Len(inflight) : inflight[j].pc = "file" } :
        \A outcome \in FileOutcomes :
          FileResponse(i, outcome)
            => /\ ended' # "failed"
               /\ ~HoldsGrib(outcome)
                    => /\ Len(inflight') = Len(inflight)
                       /\ inflight'[i].pc = "probe"
                       /\ inflight'[i].minutesBack = 0
                       /\ inflight'[i].waiter = inflight[i].waiter
                       /\ isFetching'
                       /\ ended' = "none"
               /\ ended' = "ok"
                    => /\ HoldsGrib(outcome)
                       /\ inflight[i].requests = 2
                       /\ inflight' = RemoveAt(inflight, i)
                       /\ cachedData'.fileUrl[3] = inflight[i].latestTimestamp]_vars

\* a refresh whose selected file could not be used is waiting for the answer
\* to its first probe
C18_Witness ==
  /\ Len(inflight) = 1
  /\ inflight[1].pc = "probe"
  /\ inflight[1].minutesBack = 0
  /\ inflight[1].latestTimestamp # <<>>
  /\ inflight[1].requests = 3
  /\ isFetching

\* C20: a refresh issues at most 33 upstream requests (two of Strategy A and
\* 31 probes), and whenever the guard is held it is released again.
C20_GuardAlwaysReleased ==
  /\ [](\A i \in 1..Len(inflight) : inflight[i].requests <= 2 + 31)
  /\ (isFetching ~> ~isFetching)

\* a refresh has failed in both strategies, the guard is free again and a
\* later refresh has started
C20_Witness ==
  /\ prevRun # null
  /\ prevRun.result = "failed"
  /\ isFetching
  /\ Len(inflight) = 1
  /\ inflight[1].pc = "listing"

\* the number a sequence of digit characters writes
RECURSIVE NumberOf(_)
NumberOf(chars) ==
  IF Len(chars) = 0 THEN 0
  ELSE 10 * NumberOf(SubSeq(chars, 1, Len(chars) - 1))
         + (CHOOSE d \in 0..9 : Digits[d + 1] = chars[Len(chars)])

\* a <= b for two stamps yyyymmdd-hhmmss, in lexicographic order
StampLeq(a, b) ==
  \/ NumberOf(SubSeq(a, 1, 8)) < NumberOf(SubSeq(b, 1, 8))
  \/ /\ SubSeq(a, 1, 8) = SubSeq(b, 1, 8)
     /\ NumberOf(SubSeq(a, 10, 15)) <= NumberOf(SubSeq(b, 10, 15))

\* the stamps of the file names of a listing
StampsOf(listing) ==
  { listing[k][2] : k \in { j \in 1..Len(listing) : listing[j][1] = FilePrefix } }

\* C19: for every listing with at least one matching file name, in any order
\* and with repeats, the file selected and requested is the one whose stamp
\* is the greatest of all matches in lexicographic order, and one file is
\* requested.
C19_LatestStampSelected ==
  /\ latest # null
       => /\ latest.latestTimestamp \in StampsOf(html)
          /\ \A st \in StampsOf(html) : StampLeq(st, latest.latestTimestamp)
          /\ latest.latestFile = <<FilePrefix, latest.latestTimestamp, FileSuffix>>
  /\ Len(requested) <= 1
  /\ requested # <<>>
       => requested[1] = <<baseUrl, FilePrefix, latest.latestTimestamp, FileSuffix>>

\* the listing names 20240101-000000, 20240101-001000, 20240101-000500 and
\* 20240101-001000 again, and the file of 20240101-001000 has been requested
C19_Witness ==
  /\ html = << <<FilePrefix, Stamp(2024, 1, 1, 0, 0, 0), FileSuffix>>,
               <<FilePrefix, Stamp(2024, 1, 1, 0, 10, 0), FileSuffix>>,
               <<FilePrefix, Stamp(2024, 1, 1, 0, 5, 0), FileSuffix>>,
               <<FilePrefix, Stamp(2024, 1, 1, 0, 10, 0), FileSuffix>> >>
  /\ requested = << <<baseUrl, FilePrefix, Stamp(2024, 1, 1, 0, 10, 0), FileSuffix>> >>

(***************************************************************************)
(* Properties of the Display Controller                                    *)
(***************************************************************************)
\* C11 (as stated): the step that unmounts the controller cancels the
\* interval, removes the refresh-radar listener and releases the map; after
\* it no timer tick and no refresh-radar event calls fetchRadar, and neither
\* the interval nor the listener is installed.
C11_UnmountCleansUp ==
  [][/\ (isMounted /\ ~isMounted') => (~timer' /\ ~listener' /\ ~map')
     /\ (~isMounted /\ signal' # null) => ~signal'.invoked
     /\ ~isMounted => (nextId' = nextId /\ (timer' => timer) /\ (listener' => listener))
    ]_vars

\* the events of the window while the controller is mounted
MountedRefreshEvent(s) == s # null /\ s.kind = "refresh-radar" /\ s.mounted

\* C12 (as stated): every refresh-radar event dispatched while the controller
\* is mounted calls fetchRadar at once, also while the first fetch is in flight.
C12_EveryEventRefetches ==
  MountedRefreshEvent(signal) => signal.invoked

\* C12 (amended): a refresh-radar event dispatched while the controller is
\* mounted calls fetchRadar at once exactly when the first call of fetchRadar
\* has ended before it (the listener is registered then); an event dispatched
\* during the import of the map library or during the first fetch starts no
\* fetch.
C12_EventAfterFirstFetchRefetches ==
  [][/\ (MountedRefreshEvent(signal') /\ signal'.initialEnded)
          => /\ signal'.invoked
             /\ nextId' = nextId + 1
             /\ fetches' = fetches \cup {[id |-> nextId, pc |-> "fetch", awaited |-> FALSE]}
     /\ (MountedRefreshEvent(signal') /\ ~signal'.initialEnded)
          => /\ ~signal'.invoked
             /\ fetches' = fetches
             /\ nextId' = nextId]_vars

\* the refresh button was pressed after the first fetch had ended, and a
\* second call of fetchRadar is in flight
C12_Witness ==
  /\ MountedRefreshEvent(signal)
  /\ signal.initialEnded
  /\ signal.invoked
  /\ pageIsLoading
  /\ \E f \in fetches : f.id = 2 /\ f.pc = "fetch"

\* C13: while the controller is mounted and a call of fetchRadar has ended
\* with success, one overlay layer is on the map and radarLayer.current is it.
C13_ExactlyOneOverlay ==
  (isMounted /\ \E e \in settled : e.ok)
    => /\ Cardinality(overlays) = 1
       /\ radarLayer \in overlays

\* two calls have ended with success, the second replaced the layer of the
\* first, and a third is in flight
C13_Witness ==
  /\ isMounted
  /\ \E e1, e2 \in settled : e1.ok /\ e2.ok /\ e1.id # e2.id
  /\ fetches # {}
  /\ radarLayer # null
  /\ overlays = {radarLayer}

\* C14: when a call of fetchRadar fails (fetch rejects, the status is not OK,
\* the body carries an error field, or the body cannot be parsed), the overlay
\* and the reported timestamp stay as they were, error holds a message and
\* isLoading is false.
C14_FailureKeepsOverlay ==
  [][\A f \in fetches :
       (\/ FetchSettles(f, "rejects")
        \/ FetchSettles(f, "notOk")
        \/ JsonSettles(f, ErrorBody)
        \/ JsonSettles(f, JsonRejects))
         => /\ radarLayer' = radarLayer
            /\ overlays' = overlays
            /\ lastUpdate' = lastUpdate
            /\ error' # null
            /\ isLoading' = FALSE
            /\ f \notin fetches']_vars

\* a call failed while an overlay was on the map
C14_Witness ==
  /\ isMounted
  /\ completed # null
  /\ ~completed.ok
  /\ radarLayer # null
  /\ overlays = {radarLayer}
  /\ lastUpdate # <<>>
  /\ error # null
  /\ ~isLoading

\* C15 (as stated): right after a call of fetchRadar has ended with success,
\* error is null and isLoading is false.
C15_SuccessClearsError ==
  (isMounted /\ completed # null /\ completed.ok) => (error = null /\ ~isLoading)

\* C16: a call of fetchRadar that ends with success while the map exists
\* makes its own layer the only overlay and its own timestamp the reported
\* one, whatever calls were issued before or after it, and no call leaves the
\* set of calls in flight except by ending.
C16_LastResponseWins ==
  [][/\ \A f \in fetches : \A data \in EndpointBodies :
          (map /\ JsonSettles(f, data))
            => /\ radarLayer' = [by |-> f.id, url |-> data.tile_url]
               /\ overlays' = {radarLayer'}
               /\ lastUpdate' = data.timestamp
               /\ fetches' = fetches \ {f}
     /\ \A g \in fetches :
          \/ \E h \in fetches' : h.id = g.id
          \/ completed' # null /\ completed'.id = g.id]_vars

\* call 3 was issued after call 2 and ended with success before it; call 2
\* has now ended with success and its layer is the overlay
C16_Witness ==
  /\ isMounted
  /\ [id |-> 2, ok |-> TRUE] \in settled
  /\ [id |-> 3, ok |-> TRUE] \in settled
  /\ completed # null
  /\ completed.id = 2
  /\ radarLayer # null
  /\ radarLayer.by = 2
  /\ overlays = {radarLayer}
  /\ lastUpdate = completed.data.timestamp

(***************************************************************************)
(* Properties that follow from what no operation does                      *)
(***************************************************************************)
\* C21: once cachedData is not null it is not null in any later state, and
\* every request answered while an entry is cached is answered without the
\* resolver throwing, with the primary source label and the timestamp of the
\* cached entry, however old the entry is and whether or not the refresh the
\* request ran has failed.
C21_CacheNeverCleared ==
  [][/\ cachedData # null => cachedData' # null
     /\ (last' # null /\ cachedData' # null)
          => /\ ~last'.threw
             /\ last'.response.status = 200
             /\ last'.response.body.source = "MRMS_ReflectivityAtLowestAltitude (Cached)"
             /\ last'.response.body.timestamp = cachedData'.timestamp]_vars

\* a request found the entry two minutes old, ran a refresh that failed in
\* both strategies and was answered from the entry
C21_Witness ==
  /\ cachedData # null
  /\ last # null
  /\ last.ranRefresh
  /\ last.runFailed
  /\ ~last.emptyAtCall
  /\ last.wallClock - cachedData.lastFetched >= CACHE_DURATION
  /\ last.response.body.source = "MRMS_ReflectivityAtLowestAltitude (Cached)"
  /\ last.response.body.timestamp = cachedData.timestamp

\* C22: handleRefresh sets the page's isLoading and dispatches one
\* refresh-radar event; once the page's isLoading is true it stays true, and
\* handleRefresh does not run again, so the page dispatches at most one event.
C22_ManualRefreshOneShot ==
  [][/\ handleRefresh
          => /\ ~pageIsLoading
             /\ pageIsLoading'
             /\ signal' # null
             /\ signal'.kind = "refresh-radar"
     /\ pageIsLoading => (pageIsLoading' /\ ~handleRefresh)]_vars

\* the fetch that the button started has ended, a timer tick has started
\* another one, and the button is still disabled
C22_Witness ==
  /\ isMounted
  /\ pageIsLoading
  /\ [id |-> 2, ok |-> TRUE] \in settled
  /\ signal # null
  /\ signal.kind = "tick"
  /\ signal.invoked

====
